---- MODULE Spec2Model ----
(***************************************************************************)
(* zest: control plane of the P2P download daemon.                         *)
(*                                                                         *)
(*   SpecServer  ZestServer (python/zest/server.py): ensure_running, stop, *)
(*               the health probe and the startup poll loop, against a     *)
(*               daemon that is an independent OS process.                 *)
(*   FairServer  SpecServer with the caller's thread scheduled (weak       *)
(*               fairness of the poll loop's steps).                       *)
(*   SpecPatch   hf_backend (python/zest/hf_backend.py): patch_hf_hub,     *)
(*               unpatch_hf_hub and the replacement download function.     *)
(*   SpecClient  the three binary locators and ZestClient.pull             *)
(*               (python/zest/client.py, cli.py).                          *)
(*   SpecTop     one top-level call of the package                         *)
(*               (python/zest/__init__.py): pull, status, enable, or the   *)
(*               import with its auto-enable.                              *)
(*   SpecRace    two callers inside ensure_running() of one ZestServer.    *)
(*                                                                         *)
(* Time is counted in ticks of 0.2 s (one STARTUP_POLL_INTERVAL).          *)
(***************************************************************************)
EXTENDS Integers, FiniteSets, Sequences, TLC

VARIABLES
    process,        \* ZestServer._process: 0 is None, k > 0 the k-th Popen
    nspawned,       \* number of subprocess.Popen calls made by this manager
    running,        \* spawned processes that have not exited
    unreaped,       \* spawned processes never waited on
    serving,        \* spawned process bound to the HTTP port (0: none)
    extUp,          \* a daemon this manager did not spawn holds the port
    neverHealthy,   \* environment: no daemon ever answers /v1/health with 200
    pc,             \* "idle", or "wait" inside _wait_for_health
    now,            \* time.monotonic() since the current call began (ticks)
    deadline,       \* _wait_for_health's deadline (ticks)
    call,           \* what the current / last call of the manager observed
    hfAvailable,    \* `import huggingface_hub` succeeds
    snapshot_download,  \* huggingface_hub.snapshot_download
    original,       \* hf_backend._original_snapshot_download (0 is None)
    patched,        \* hf_backend._patched
    nrepl,          \* replacement closures created so far
    hist,           \* the last step of the interception layer and what it found
    dl,             \* what the last step did, if it invoked a download function
    cl,             \* what the last locator call or ZestClient.pull found and did
    top,            \* the top-level call of the package in progress, or the last
    race            \* each concurrent caller of ensure_running: position, findings

serverVars == <<process, nspawned, running, unreaped, serving, extUp,
                neverHealthy, pc, now, deadline, call>>
patchVars == <<hfAvailable, snapshot_download, original, patched, nrepl, hist, dl>>
clientVars == <<cl>>
topVars == <<top>>
raceVars == <<race>>
vars == <<serverVars, patchVars, clientVars, topVars, raceVars>>

-----------------------------------------------------------------------------
(* Bounds of the model *)

MaxSpawns == 2      \* Popen calls explored per manager
MaxPatches == 2     \* activations of the interception explored
NumHubFns == 2      \* download functions other code may install in the library
MaxMtime == 2       \* modification times of snapshot directories

(* server.py constants, in ticks of 0.2 s *)
HEALTH_TIMEOUT == 10
STARTUP_TIMEOUT == 25
STARTUP_POLL_INTERVAL == 1

-----------------------------------------------------------------------------
(* ZestServer *)

None == 0

Listening == extUp \/ serving # None

\* What GET /v1/health can do: only a listening daemon can answer at all, and
\* a daemon that never becomes healthy never answers 200.
HealthOutcomes ==
    IF Listening
    THEN (IF neverHealthy THEN {} ELSE {"200"}) \cup {"non200", "connerr", "timeout"}
    ELSE {"connerr"}

\* How long a request can block the caller: a timeout takes the whole
\* HEALTH_TIMEOUT, any other outcome anything up to it.
Durations(o) == IF o = "timeout" THEN {HEALTH_TIMEOUT} ELSE 0..HEALTH_TIMEOUT

HealthCheckAnyResponse(o) == o \in {"200", "non200"}

\* _health_check: status 200 is healthy, ConnectionError and Timeout are not.
HealthCheck(o) == o = "200"

\* _find_binary: bundled, then PATH, then ~/.local/bin; "" is None.
\* pathIsCaller: the `zest` on PATH is the script now executing (sys.argv[0]).
FsStates == [bundledFile: BOOLEAN, bundledExec: BOOLEAN, onPath: BOOLEAN,
             pathIsCaller: BOOLEAN, localFile: BOOLEAN, localExec: BOOLEAN]

ServerFindBinaryPathFirst(fs) ==
    IF fs.onPath THEN "path"
    ELSE IF fs.bundledFile /\ fs.bundledExec THEN "bundled"
    ELSE IF fs.localFile /\ fs.localExec THEN "local"
    ELSE ""

ServerFindBinary(fs) ==
    IF fs.bundledFile /\ fs.bundledExec THEN "bundled"
    ELSE IF fs.onPath THEN "path"
    ELSE IF fs.localFile /\ fs.localExec THEN "local"
    ELSE ""

NoCall == [op |-> "none", result |-> "none", process0 |-> None,
           nspawned0 |-> 0, firstOk |-> FALSE, lastOk |-> FALSE,
           located |-> FALSE, post |-> "none", exited0 |-> FALSE]

AlwaysSpawn(healthy) == TRUE

\* ensure_running, lines 29-30: `if self._health_check(): return`.
NeedsSpawn(healthy) == ~healthy

\* _wait_for_health's loop test, `while time.monotonic() < deadline`, negated.
Expired(t, limit) == t >= limit

\* time.sleep(STARTUP_POLL_INTERVAL)
Sleep(t) == t + STARTUP_POLL_INTERVAL

\* ensure_running up to its return, its raise, or its entry into the poll
\* loop of _wait_for_health: the initial probe (outcome o, taking d ticks),
\* _find_binary (on any state of the file system), Popen, and the deadline.
EnsureRunning ==
    /\ pc = "idle"
    /\ \E o \in HealthOutcomes, binary \in {ServerFindBinary(fs) : fs \in FsStates} :
       \E d \in Durations(o) :
         LET c0 == [NoCall EXCEPT !.op = "ensure_running",
                                  !.process0 = process,
                                  !.nspawned0 = nspawned,
                                  !.firstOk = (o = "200"),
                                  !.lastOk = (o = "200")]
         IN  /\ now' = d
             /\ IF ~NeedsSpawn(HealthCheck(o))
                THEN /\ call' = [c0 EXCEPT !.result = "ok"]
                     /\ pc' = "idle"
                     /\ deadline' = 0
                     /\ UNCHANGED <<process, nspawned, running, unreaped>>
                ELSE IF binary = ""
                THEN /\ call' = [c0 EXCEPT !.result = "BinaryNotFound", !.located = TRUE]
                     /\ pc' = "idle"
                     /\ deadline' = 0
                     /\ UNCHANGED <<process, nspawned, running, unreaped>>
                ELSE /\ nspawned < MaxSpawns
                     /\ nspawned' = nspawned + 1
                     /\ process' = nspawned + 1
                     /\ running' = running \cup {nspawned + 1}
                     /\ unreaped' = unreaped \cup {nspawned + 1}
                     /\ call' = [c0 EXCEPT !.located = TRUE]
                     /\ deadline' = d + STARTUP_TIMEOUT
                     /\ pc' = "wait"
    /\ UNCHANGED <<serving, extUp, neverHealthy, patchVars>>

\* The loop with the Popen moved into it: every failed probe spawns again.
WaitForHealthPollRespawn ==
    /\ pc = "wait"
    /\ ~Expired(now, deadline)
    /\ \E o \in HealthOutcomes :
       \E d \in Durations(o) :
         IF HealthCheck(o)
         THEN /\ call' = [call EXCEPT !.result = "ok", !.lastOk = (o = "200")]
              /\ pc' = "idle"
              /\ now' = now + d
              /\ UNCHANGED <<process, nspawned, running, unreaped>>
         ELSE /\ call' = [call EXCEPT !.lastOk = (o = "200")]
              /\ pc' = "wait"
              /\ now' = Sleep(now + d)
              /\ nspawned < MaxSpawns
              /\ nspawned' = nspawned + 1
              /\ process' = nspawned + 1
              /\ running' = running \cup {nspawned + 1}
              /\ unreaped' = unreaped \cup {nspawned + 1}
    /\ UNCHANGED <<serving, extUp, neverHealthy, deadline, patchVars>>

\* One iteration of _wait_for_health's loop: a probe, then return or sleep.
WaitForHealthPoll ==
    /\ pc = "wait"
    /\ ~Expired(now, deadline)
    /\ \E o \in HealthOutcomes :
       \E d \in Durations(o) :
         IF HealthCheck(o)
         THEN /\ call' = [call EXCEPT !.result = "ok", !.lastOk = (o = "200")]
              /\ pc' = "idle"
              /\ now' = now + d
         ELSE /\ call' = [call EXCEPT !.lastOk = (o = "200")]
              /\ pc' = "wait"
              /\ now' = Sleep(now + d)
    /\ UNCHANGED <<process, nspawned, running, unreaped, serving, extUp,
                   neverHealthy, deadline, patchVars>>

\* The loop's end without its raise: the function falls off its end.
WaitForHealthNoRaise ==
    /\ pc = "wait"
    /\ Expired(now, deadline)
    /\ call' = [call EXCEPT !.result = "ok"]
    /\ pc' = "idle"
    /\ UNCHANGED <<process, nspawned, running, unreaped, serving, extUp,
                   neverHealthy, now, deadline, patchVars>>

\* _wait_for_health's loop ends on the deadline: RuntimeError.
WaitForHealthTimeout ==
    /\ pc = "wait"
    /\ Expired(now, deadline)
    /\ call' = [call EXCEPT !.result = "StartupTimeout"]
    /\ pc' = "idle"
    /\ UNCHANGED <<process, nspawned, running, unreaped, serving, extUp,
                   neverHealthy, now, deadline, patchVars>>

\* What POST /v1/stop can do: "ok" is any HTTP response.
StopOutcomes == IF Listening THEN {"ok", "connerr", "timeout"} ELSE {"connerr"}

PostRaisesConnectionError(o) == o \in {"timeout", "connerr"}

\* stop, lines 45-48: requests.ConnectionError is swallowed, a read timeout
\* (requests.Timeout) is not.
PostRaises(o) == o = "timeout"

\* stop: the request (outcome o; a daemon that got it shuts down if `obeys`),
\* then, with a handle, Popen.wait(timeout=5), which returns when the process
\* has exited or exits in time (`exits`) and raises TimeoutExpired otherwise.
Stop ==
    /\ pc = "idle"
    /\ \E o \in StopOutcomes, obeys \in BOOLEAN, exits \in BOOLEAN :
         LET shut == o = "ok" /\ obeys
             running1 == IF shut THEN running \ {serving} ELSE running
             serving1 == IF shut THEN None ELSE serving
             extUp1 == IF shut THEN FALSE ELSE extUp
             c0 == [NoCall EXCEPT !.op = "stop",
                                  !.process0 = process,
                                  !.nspawned0 = nspawned,
                                  !.post = o,
                                  !.exited0 = (process # None /\ process \notin running)]
         IN  IF PostRaises(o)
             THEN /\ call' = [c0 EXCEPT !.result = "Timeout"]
                  /\ UNCHANGED <<process, running, unreaped, serving, extUp>>
             ELSE IF process = None
             THEN /\ call' = [c0 EXCEPT !.result = "ok"]
                  /\ running' = running1
                  /\ serving' = serving1
                  /\ extUp' = extUp1
                  /\ UNCHANGED <<process, unreaped>>
             ELSE IF process \notin running1 \/ exits
             THEN /\ call' = [c0 EXCEPT !.result = "ok"]
                  /\ running' = running1 \ {process}
                  /\ serving' = IF serving1 = process THEN None ELSE serving1
                  /\ extUp' = extUp1
                  /\ unreaped' = unreaped \ {process}
                  /\ process' = None
             ELSE /\ call' = [c0 EXCEPT !.result = "TimeoutExpired"]
                  /\ running' = running1
                  /\ serving' = serving1
                  /\ extUp' = extUp1
                  /\ UNCHANGED <<process, unreaped>>
    /\ now' = 0
    /\ deadline' = 0
    /\ UNCHANGED <<nspawned, neverHealthy, pc, patchVars>>

(* The daemon processes, which run on their own *)

\* `zest serve --http-port`: a spawned process binds the port if it is free.
DaemonBind ==
    \E k \in running :
        /\ ~Listening
        /\ serving' = k
        /\ UNCHANGED <<process, nspawned, running, unreaped, extUp,
                       neverHealthy, pc, now, deadline, call, patchVars>>

\* A spawned process exits (a crash, a failed bind, a shutdown).
DaemonExit ==
    \E k \in running :
        /\ running' = running \ {k}
        /\ serving' = IF serving = k THEN None ELSE serving
        /\ UNCHANGED <<process, nspawned, unreaped, extUp,
                       neverHealthy, pc, now, deadline, call, patchVars>>

\* A daemon started by someone else takes the port, or goes away.
ExternalStart ==
    /\ ~Listening
    /\ extUp' = TRUE
    /\ UNCHANGED <<process, nspawned, running, unreaped, serving,
                   neverHealthy, pc, now, deadline, call, patchVars>>

ExternalExit ==
    /\ extUp
    /\ extUp' = FALSE
    /\ UNCHANGED <<process, nspawned, running, unreaped, serving,
                   neverHealthy, pc, now, deadline, call, patchVars>>

-----------------------------------------------------------------------------
(* hf_backend *)

\* Function references: the library's own download functions, the
\* replacement closures patch_hf_hub creates (one per activation), and None.
HubFn(i) == [kind |-> "hub", id |-> i]
Zest(k) == [kind |-> "zest", id |-> k]
NoFn == [kind |-> "none", id |-> 0]

HubFns == {HubFn(i) : i \in 1..NumHubFns}

NoStep == [op |-> "none", download0 |-> NoFn, original0 |-> NoFn,
           patched0 |-> FALSE, activated |-> NoFn, recordings |-> <<>>]

\* The step `op` taken from the current state.
Step(op) == [hist EXCEPT !.op = op,
                         !.download0 = snapshot_download,
                         !.original0 = original,
                         !.patched0 = patched]

Repos == {"org/name", "gpt2"}
NoRevision == "None"
Revisions == {NoRevision, "", "dev"}
Kwargs == {{}, {"cache_dir"}}
PullOutcomes == {"RuntimeError", "FileNotFoundError", "", "/snapshots/abc"}

NoDownload == [fn |-> NoFn, entry |-> FALSE,
               args |-> [repo |-> "", revision |-> "", kwargs |-> {}],
               pullArgs |-> [repo |-> "", revision |-> ""],
               pull |-> "notcalled", recorded |-> NoFn,
               origCalled |-> FALSE, target |-> NoFn,
               origArgs |-> [repo |-> "", revision |-> "", kwargs |-> {}],
               result |-> [kind |-> "none", value |-> <<>>]]

ImportNeverFails == FALSE

\* patch_hf_hub, lines 15-18: `import huggingface_hub` raises ImportError.
ImportFails == ~hfAvailable

AlwaysProceed == FALSE

\* patch_hf_hub, lines 12-13: `if _patched: return`.
AlreadyPatched == patched

InstalledReplacement == Zest(nrepl + 1)

\* patch_hf_hub, line 20: the function recorded as the original.
CurrentDownload == snapshot_download

\* patch_hf_hub(client)
PatchHfHub ==
    /\ dl' = NoDownload
    /\ hist' = [Step("patch") EXCEPT
                  !.activated = IF ~AlreadyPatched /\ hfAvailable
                                THEN snapshot_download ELSE @,
                  !.recordings = IF ~AlreadyPatched /\ hfAvailable
                                 THEN Append(@, snapshot_download) ELSE @]
    /\ IF AlreadyPatched \/ ImportFails
       THEN UNCHANGED <<snapshot_download, original, patched, nrepl>>
       ELSE /\ nrepl < MaxPatches
            /\ original' = CurrentDownload
            /\ nrepl' = nrepl + 1
            /\ snapshot_download' = Zest(nrepl + 1)
            /\ patched' = TRUE
    /\ UNCHANGED <<hfAvailable, serverVars>>

RestoreAnyway == FALSE

\* unpatch_hf_hub, lines 39-40.
NothingToRestore == ~patched \/ original = NoFn

\* unpatch_hf_hub()
UnpatchHfHub ==
    /\ dl' = NoDownload
    /\ hist' = Step("unpatch")
    /\ IF NothingToRestore
       THEN UNCHANGED <<snapshot_download, original, patched>>
       ELSE /\ snapshot_download' = IF hfAvailable THEN original ELSE snapshot_download
            /\ patched' = FALSE
            /\ original' = NoFn
    /\ UNCHANGED <<hfAvailable, nrepl, serverVars>>

\* `revision or "main"`
OrMain(revision) == IF revision \in {NoRevision, ""} THEN "main" ELSE revision

NormalizedArgs(repo, revision, kwargs) ==
    [repo |-> repo, revision |-> OrMain(revision), kwargs |-> kwargs]

\* zest_snapshot_download, line 30: the arguments handed to the original.
FallbackArgs(repo, revision, kwargs) ==
    [repo |-> repo, revision |-> revision, kwargs |-> kwargs]

\* zest_snapshot_download, line 30: the function the fallback calls, the
\* module global read when the replacement runs.
FallbackTarget == original

\* A call of one of the library's own download functions.
CallHub(f, a, raises) ==
    [kind |-> IF raises THEN "raised" ELSE "snapshot", value |-> <<f, a>>]

\* A caller invokes a download function: the library's entry point, or a
\* replacement it kept a reference to. pull is what client.pull does.
Download ==
    /\ hfAvailable
    /\ \E f \in {snapshot_download} \cup {Zest(k) : k \in 1..nrepl},
          repo \in Repos, revision \in Revisions, kwargs \in Kwargs,
          pull \in PullOutcomes, raises \in BOOLEAN :
         LET a == [repo |-> repo, revision |-> revision, kwargs |-> kwargs]
             d0 == [NoDownload EXCEPT !.fn = f,
                                      !.entry = (f = snapshot_download),
                                      !.args = a,
                                      !.recorded = original]
             t == FallbackTarget
         IN  dl' =
               IF f.kind = "hub"
               THEN [d0 EXCEPT !.result = CallHub(f, a, raises)]
               ELSE LET d1 == [d0 EXCEPT !.pull = pull,
                                         !.pullArgs = [repo |-> repo,
                                                       revision |-> OrMain(revision)]]
                    IN  IF pull \notin {"RuntimeError", "FileNotFoundError", ""}
                        THEN [d1 EXCEPT !.result = [kind |-> "path", value |-> <<pull>>]]
                        ELSE IF t.kind = "none"
                        THEN [d1 EXCEPT !.target = t,
                                        !.result = [kind |-> "TypeError", value |-> <<>>]]
                        ELSE IF t.kind = "zest"
                        THEN [d1 EXCEPT !.target = t,
                                        !.result = [kind |-> "RecursionError", value |-> <<>>]]
                        ELSE [d1 EXCEPT !.origCalled = TRUE,
                                        !.target = t,
                                        !.origArgs = FallbackArgs(repo, revision, kwargs),
                                        !.result = CallHub(t, FallbackArgs(repo, revision, kwargs), raises)]
    /\ hist' = Step("download")
    /\ UNCHANGED <<hfAvailable, snapshot_download, original, patched, nrepl, serverVars>>

(* The rest of the process *)

\* huggingface_hub becomes importable (it is installed, or first imported).
HubInstalled ==
    /\ ~hfAvailable
    /\ hfAvailable' = TRUE
    /\ dl' = NoDownload
    /\ hist' = Step("env")
    /\ UNCHANGED <<snapshot_download, original, patched, nrepl, serverVars>>

\* Other code rebinds the library's entry point to a function of its own.
HubRebound ==
    /\ hfAvailable
    /\ \E f \in HubFns \ {snapshot_download} : snapshot_download' = f
    /\ dl' = NoDownload
    /\ hist' = Step("env")
    /\ UNCHANGED <<hfAvailable, original, patched, nrepl, serverVars>>

-----------------------------------------------------------------------------
(* The binary locators and ZestClient *)

\* cli._find_binary: bundled, then PATH unless it is the running script, then
\* ~/.local/bin; "" is None.
CliFindBinary(fs) ==
    IF fs.bundledFile /\ fs.bundledExec THEN "bundled"
    ELSE IF fs.onPath /\ ~fs.pathIsCaller THEN "path"
    ELSE IF fs.localFile /\ fs.localExec THEN "local"
    ELSE ""

\* client._find_zest_binary: bundled (any file), then PATH; "" stands for the
\* FileNotFoundError it raises.
ClientFindBinary(fs) ==
    IF fs.bundledFile THEN "bundled"
    ELSE IF fs.onPath THEN "path"
    ELSE ""

\* Repo ids, as the segments and separators str.replace works on.
ClientRepos == {<<"org", "/", "name">>, <<"gpt2">>}

PlainReplace(repo) == repo

\* repo.replace("/", "--")
RECURSIVE Replace(_)
Replace(repo) ==
    IF repo = <<>> THEN <<>>
    ELSE <<IF Head(repo) = "/" THEN "--" ELSE Head(repo)>> \o Replace(Tail(repo))

\* The directory name f"models--{safe_name}" under ~/.cache/huggingface/hub.
CacheDir(repo) == <<"models--">> \o Replace(repo)

\* The hub cache: per model directory, whether its snapshots/ exists and the
\* modification time of each entry in it (0: no such entry).
SnapNames == {"abc", "def"}
Listings == [isDir: BOOLEAN, mtime: [SnapNames -> 0..MaxMtime]]
CacheDirs == {<<"models--", "org", "--", "name">>, <<"models--", "gpt2">>}
Caches == {c \in [CacheDirs -> Listings] :
              \A d \in CacheDirs : ~c[d].isDir => \A n \in SnapNames : c[d].mtime[n] = 0}

Snapshots(cache, dir) ==
    IF dir \in DOMAIN cache /\ cache[dir].isDir
    THEN {n \in SnapNames : cache[dir].mtime[n] > 0}
    ELSE {}

\* sorted(snapshots.iterdir(), key=st_mtime, reverse=True)[0], for any order
\* iterdir lists the entries in.
MostRecent(cache, dir) ==
    {n \in Snapshots(cache, dir) :
        \A n2 \in Snapshots(cache, dir) : cache[dir].mtime[n2] <= cache[dir].mtime[n]}

NoClientCall == [op |-> "none",
                 fs |-> [bundledFile |-> FALSE, bundledExec |-> FALSE,
                         onPath |-> FALSE, pathIsCaller |-> FALSE,
                         localFile |-> FALSE, localExec |-> FALSE],
                 cli |-> "", server |-> "", client |-> "",
                 repo |-> <<>>, revision |-> "", cmd |-> <<>>, rc |-> 0,
                 cache |-> [d \in CacheDirs |-> [isDir |-> FALSE,
                                               mtime |-> [n \in SnapNames |-> 0]]],
                 result |-> [kind |-> "none", dir |-> <<>>, name |-> ""]]

\* The three locators, each run on the same file system. The locators and
\* pull keep no state between calls: one call is observed per behaviour.
Locate ==
    /\ cl.op = "none"
    /\ \E fs \in FsStates :
         cl' = [NoClientCall EXCEPT !.op = "locate",
                                    !.fs = fs,
                                    !.cli = CliFindBinary(fs),
                                    !.server = ServerFindBinary(fs),
                                    !.client = ClientFindBinary(fs)]
    /\ UNCHANGED <<serverVars, patchVars, topVars, raceVars>>

\* ZestClient.pull(repo, revision) with a located binary ("" is none found),
\* a subprocess that exits with rc, and the cache as read afterwards: what
\* the call can end as (several, if modification times tie).
PullResults(repo, revision, rc, binary, cache) ==
    LET c0 == [NoClientCall EXCEPT !.op = "pull", !.client = binary,
                                   !.repo = repo, !.revision = revision,
                                   !.cache = cache]
        c1 == [c0 EXCEPT !.cmd = <<binary, "pull", repo, "--revision", revision>>,
                         !.rc = rc]
        dir == CacheDir(repo)
    IN  IF binary = ""
        THEN {[c0 EXCEPT !.result.kind = "FileNotFoundError"]}
        ELSE IF rc # 0
        THEN {[c1 EXCEPT !.result.kind = "RuntimeError"]}
        ELSE IF Snapshots(cache, dir) = {}
        THEN {[c1 EXCEPT !.result.kind = "empty"]}
        ELSE {[c1 EXCEPT !.result = [kind |-> "path", dir |-> dir, name |-> n]] :
                n \in MostRecent(cache, dir)}

Pull ==
    /\ cl.op = "none"
    /\ \E repo \in ClientRepos, revision \in {"main", "dev"}, rc \in {0, 1},
          binary \in {ClientFindBinary(fs) : fs \in FsStates}, cache \in Caches :
         cl' \in PullResults(repo, revision, rc, binary, cache)
    /\ UNCHANGED <<serverVars, patchVars, topVars, raceVars>>

-----------------------------------------------------------------------------
(* The package's top-level operations (python/zest/__init__.py) *)

\* PatchState: the interception layer's globals and the library's entry point.
PatchState == <<snapshot_download, original, patched>>

NoTop == [op |-> "none", stage |-> "idle", flag |-> "", ensured |-> "none",
          requested |-> FALSE, patchCalled |-> FALSE,
          outcome |-> "none", error |-> "none",
          patch0 |-> <<NoFn, NoFn, FALSE>>]

\* pull(), status(), enable(): each is _init(), _server.ensure_running(),
\* then the client request or patch_hf_hub.
TopOps == {"pull", "status", "enable"}

\* os.environ.get("ZEST", "").strip(): the values, stripped.
FlagValues == {"", "0", "1", "true", "yes"}

\* line 70: `in ("1", "true", "yes")`
AutoEnable(v) == v \in {"1", "true", "yes"}

ProceedsRegardless(result) == TRUE

\* lines 36, 52, 59: the statement after `_server.ensure_running()` runs only
\* if that call returned; a raise leaves the operation.
Proceeds(result) == result = "ok"

\* What can be raised inside a top-level operation; each is an Exception.
Exceptions == {"BinaryNotFound", "StartupTimeout", "PatchFailure",
               "FileNotFoundError", "RuntimeError",
               "HTTPError", "ConnectionError", "Timeout"}

CatchesNothing(e) == FALSE

\* lines 71-74: `try: enable()` / `except Exception: pass`.
Catches(e) == e \in Exceptions

\* An error e leaves the operation: it reaches the caller, unless the
\* operation is the import's auto-enable and the handler catches it.
Raise(t, e) ==
    [t EXCEPT !.stage = "done",
              !.outcome = IF t.op = "import" /\ Catches(e) THEN "returned" ELSE "raised",
              !.error = e]

Return(t) == [t EXCEPT !.stage = "done", !.outcome = "returned"]

\* What ZestClient.pull can end as, over its inputs.
PullKinds ==
    {r.result.kind :
        r \in UNION {PullResults(repo, "main", rc, ClientFindBinary(fs), cache) :
                        repo \in ClientRepos, rc \in {0, 1},
                        fs \in FsStates, cache \in Caches}}

\* ZestClient.status, lines 50-54: GET /v1/status, raise_for_status().
StatusOutcomes ==
    IF Listening THEN {"ok", "HTTPError", "ConnectionError", "Timeout"}
    ELSE {"ConnectionError"}

\* pull(), status() or enable() up to the return, the raise or the poll loop
\* of its ensure_running().
TopCall ==
    /\ top.stage = "idle"
    /\ \E op \in TopOps :
         top' = [NoTop EXCEPT !.op = op, !.stage = "ensuring", !.patch0 = PatchState]
    /\ EnsureRunning
    /\ UNCHANGED <<clientVars, raceVars>>

\* `import zest`, lines 69-74: with the flag set, enable() inside the try.
\* hf_backend is as first imported (lines 5-6 of hf_backend.py).
TopImport ==
    /\ top.stage = "idle"
    /\ ~patched
    /\ \E v \in FlagValues :
         IF AutoEnable(v)
         THEN /\ top' = [NoTop EXCEPT !.op = "import", !.flag = v,
                                      !.stage = "ensuring", !.patch0 = PatchState]
              /\ EnsureRunning
         ELSE /\ top' = Return([NoTop EXCEPT !.op = "import", !.flag = v,
                                             !.patch0 = PatchState])
              /\ UNCHANGED <<serverVars, patchVars>>
    /\ UNCHANGED <<clientVars, raceVars>>

\* The rest of the operation once ensure_running() has returned or raised:
\* the client request, or patch_hf_hub (which raises if lines 15-20 raise
\* something other than ImportError: a broken installation of the library).
TopFinish ==
    /\ top.stage = "ensuring"
    /\ pc = "idle"
    /\ LET t0 == [top EXCEPT !.ensured = call.result]
           t1 == [t0 EXCEPT !.requested = TRUE]
           t2 == [t0 EXCEPT !.patchCalled = TRUE]
       IN  IF ~Proceeds(call.result)
           THEN /\ top' = Raise(t0, call.result)
                /\ UNCHANGED <<serverVars, patchVars>>
           ELSE IF top.op = "pull"
           THEN /\ \E k \in PullKinds :
                     top' = IF k \in {"FileNotFoundError", "RuntimeError"}
                            THEN Raise(t1, k) ELSE Return(t1)
                /\ UNCHANGED <<serverVars, patchVars>>
           ELSE IF top.op = "status"
           THEN /\ \E o \in StatusOutcomes :
                     top' = IF o = "ok" THEN Return(t1) ELSE Raise(t1, o)
                /\ UNCHANGED <<serverVars, patchVars>>
           ELSE \E patchRaises \in BOOLEAN :
                  IF patchRaises /\ ~AlreadyPatched
                  THEN /\ top' = Raise(t2, "PatchFailure")
                       /\ UNCHANGED <<serverVars, patchVars>>
                  ELSE /\ top' = Return(t2)
                       /\ PatchHfHub
    /\ UNCHANGED <<clientVars, raceVars>>

-----------------------------------------------------------------------------
(* Two callers inside ensure_running() of one ZestServer *)

Callers == {1, 2}

NoRace == [t \in Callers |-> [pc |-> "start", probeFailed |-> FALSE,
                              nspawned0 |-> 0, mine |-> None,
                              result |-> "none"]]

KeepFirstHandle(k) == IF process = None THEN k ELSE process

\* ensure_running, line 36: `self._process = subprocess.Popen(...)`, with no
\* lock and no look at the handle already held.
AssignedHandle(k) == k

\* Lines 29-30, by one caller: the initial probe.
RaceProbe ==
    \E t \in Callers :
        /\ race[t].pc = "start"
        /\ \E o \in HealthOutcomes :
             race' = [race EXCEPT ![t] =
                        IF NeedsSpawn(HealthCheck(o))
                        THEN [@ EXCEPT !.pc = "probed", !.probeFailed = TRUE,
                                       !.nspawned0 = nspawned]
                        ELSE [@ EXCEPT !.pc = "done", !.result = "ok"]]
        /\ UNCHANGED <<serverVars, patchVars, clientVars, topVars>>

\* Lines 31-40, by one caller: _find_binary and Popen.
RaceSpawn ==
    \E t \in Callers :
        /\ race[t].pc = "probed"
        /\ \E binary \in {ServerFindBinary(fs) : fs \in FsStates} :
             IF binary = ""
             THEN /\ race' = [race EXCEPT ![t].pc = "done",
                                          ![t].result = "BinaryNotFound"]
                  /\ UNCHANGED <<process, nspawned, running, unreaped>>
             ELSE /\ nspawned < MaxSpawns
                  /\ nspawned' = nspawned + 1
                  /\ process' = AssignedHandle(nspawned + 1)
                  /\ running' = running \cup {nspawned + 1}
                  /\ unreaped' = unreaped \cup {nspawned + 1}
                  /\ race' = [race EXCEPT ![t].pc = "wait",
                                          ![t].mine = nspawned + 1]
        /\ UNCHANGED <<serving, extUp, neverHealthy, pc, now, deadline, call,
                       patchVars, clientVars, topVars>>

\* One probe of a caller's _wait_for_health loop.
RacePoll ==
    \E t \in Callers :
        /\ race[t].pc = "wait"
        /\ \E o \in HealthOutcomes :
             race' = IF HealthCheck(o)
                     THEN [race EXCEPT ![t].pc = "done", ![t].result = "ok"]
                     ELSE race
        /\ UNCHANGED <<serverVars, patchVars, clientVars, topVars>>

\* A caller's loop ends on its deadline. When the clock passes it relative to
\* the other steps is up to the scheduler.
RaceTimeout ==
    \E t \in Callers :
        /\ race[t].pc = "wait"
        /\ race' = [race EXCEPT ![t].pc = "done", ![t].result = "StartupTimeout"]
        /\ UNCHANGED <<serverVars, patchVars, clientVars, topVars>>

-----------------------------------------------------------------------------
(* Specifications *)

NextServer ==
    \/ EnsureRunning /\ UNCHANGED <<clientVars, topVars, raceVars>>
    \/ WaitForHealthPoll /\ UNCHANGED <<clientVars, topVars, raceVars>>
    \/ WaitForHealthTimeout /\ UNCHANGED <<clientVars, topVars, raceVars>>
    \/ Stop /\ UNCHANGED <<clientVars, topVars, raceVars>>
    \/ DaemonBind /\ UNCHANGED <<clientVars, topVars, raceVars>>
    \/ DaemonExit /\ UNCHANGED <<clientVars, topVars, raceVars>>
    \/ ExternalStart /\ UNCHANGED <<clientVars, topVars, raceVars>>
    \/ ExternalExit /\ UNCHANGED <<clientVars, topVars, raceVars>>

\* A fresh ZestServer(); the daemon's environment is any; no interception.
InitServer ==
    /\ process = None
    /\ nspawned = 0
    /\ running = {}
    /\ unreaped = {}
    /\ serving = None
    /\ extUp \in BOOLEAN
    /\ neverHealthy \in BOOLEAN
    /\ pc = "idle"
    /\ now = 0
    /\ deadline = 0
    /\ call = NoCall
    /\ hfAvailable = TRUE
    /\ snapshot_download = HubFn(1)
    /\ original = NoFn
    /\ patched = FALSE
    /\ nrepl = 0
    /\ hist = NoStep
    /\ dl = NoDownload
    /\ cl = NoClientCall
    /\ top = NoTop
    /\ race = NoRace

SpecServer == InitServer /\ [][NextServer]_vars

NextPatch ==
    \/ PatchHfHub /\ UNCHANGED <<clientVars, topVars, raceVars>>
    \/ UnpatchHfHub /\ UNCHANGED <<clientVars, topVars, raceVars>>
    \/ Download /\ UNCHANGED <<clientVars, topVars, raceVars>>
    \/ HubInstalled /\ UNCHANGED <<clientVars, topVars, raceVars>>
    \/ HubRebound /\ UNCHANGED <<clientVars, topVars, raceVars>>

\* hf_backend as imported: not patched; the library may be missing.
InitPatch ==
    /\ hfAvailable \in BOOLEAN
    /\ snapshot_download = HubFn(1)
    /\ original = NoFn
    /\ patched = FALSE
    /\ nrepl = 0
    /\ hist = NoStep
    /\ dl = NoDownload
    /\ cl = NoClientCall
    /\ top = NoTop
    /\ race = NoRace
    /\ process = None
    /\ nspawned = 0
    /\ running = {}
    /\ unreaped = {}
    /\ serving = None
    /\ extUp = FALSE
    /\ neverHealthy = FALSE
    /\ pc = "idle"
    /\ now = 0
    /\ deadline = 0
    /\ call = NoCall

SpecPatch == InitPatch /\ [][NextPatch]_vars

NextClient ==
    \/ Locate
    \/ Pull

\* No call made yet; nothing else of the package is in use.
InitClient ==
    /\ cl = NoClientCall
    /\ top = NoTop
    /\ race = NoRace
    /\ hfAvailable = TRUE
    /\ snapshot_download = HubFn(1)
    /\ original = NoFn
    /\ patched = FALSE
    /\ nrepl = 0
    /\ hist = NoStep
    /\ dl = NoDownload
    /\ process = None
    /\ nspawned = 0
    /\ running = {}
    /\ unreaped = {}
    /\ serving = None
    /\ extUp = FALSE
    /\ neverHealthy = FALSE
    /\ pc = "idle"
    /\ now = 0
    /\ deadline = 0
    /\ call = NoCall

SpecClient == InitClient /\ [][NextClient]_vars

NextTop ==
    \/ TopCall
    \/ TopImport
    \/ WaitForHealthPoll /\ UNCHANGED <<clientVars, topVars, raceVars>>
    \/ WaitForHealthTimeout /\ UNCHANGED <<clientVars, topVars, raceVars>>
    \/ TopFinish
    \/ DaemonBind /\ UNCHANGED <<clientVars, topVars, raceVars>>
    \/ DaemonExit /\ UNCHANGED <<clientVars, topVars, raceVars>>
    \/ ExternalStart /\ UNCHANGED <<clientVars, topVars, raceVars>>
    \/ ExternalExit /\ UNCHANGED <<clientVars, topVars, raceVars>>

\* The package before one top-level call: no ZestServer made yet (_init makes
\* it), the interception off, or on since an earlier enable().
InitTop ==
    /\ top = NoTop
    /\ race = NoRace
    /\ cl = NoClientCall
    /\ process = None
    /\ nspawned = 0
    /\ running = {}
    /\ unreaped = {}
    /\ serving = None
    /\ extUp \in BOOLEAN
    /\ neverHealthy \in BOOLEAN
    /\ pc = "idle"
    /\ now = 0
    /\ deadline = 0
    /\ call = NoCall
    /\ patched \in BOOLEAN
    /\ hfAvailable \in (IF patched THEN {TRUE} ELSE BOOLEAN)
    /\ snapshot_download = (IF patched THEN Zest(1) ELSE HubFn(1))
    /\ original = (IF patched THEN HubFn(1) ELSE NoFn)
    /\ nrepl = (IF patched THEN 1 ELSE 0)
    /\ hist = (IF patched
               THEN [NoStep EXCEPT !.op = "patch", !.download0 = HubFn(1),
                                   !.activated = HubFn(1),
                                   !.recordings = <<HubFn(1)>>]
               ELSE NoStep)
    /\ dl = NoDownload

SpecTop == InitTop /\ [][NextTop]_vars

NextRace ==
    \/ RaceProbe
    \/ RaceSpawn
    \/ RacePoll
    \/ RaceTimeout
    \/ DaemonBind /\ UNCHANGED <<clientVars, topVars, raceVars>>
    \/ DaemonExit /\ UNCHANGED <<clientVars, topVars, raceVars>>
    \/ ExternalStart /\ UNCHANGED <<clientVars, topVars, raceVars>>
    \/ ExternalExit /\ UNCHANGED <<clientVars, topVars, raceVars>>

\* A fresh ZestServer() shared by the two callers.
InitRace ==
    /\ race = NoRace
    /\ top = NoTop
    /\ cl = NoClientCall
    /\ process = None
    /\ nspawned = 0
    /\ running = {}
    /\ unreaped = {}
    /\ serving = None
    /\ extUp \in BOOLEAN
    /\ neverHealthy \in BOOLEAN
    /\ pc = "idle"
    /\ now = 0
    /\ deadline = 0
    /\ call = NoCall
    /\ hfAvailable = TRUE
    /\ snapshot_download = HubFn(1)
    /\ original = NoFn
    /\ patched = FALSE
    /\ nrepl = 0
    /\ hist = NoStep
    /\ dl = NoDownload

SpecRace == InitRace /\ [][NextRace]_vars

\* The caller's thread runs: a poll loop that can take a step takes it.
FairServer ==
    /\ SpecServer
    /\ WF_vars(WaitForHealthPoll /\ UNCHANGED <<clientVars, topVars, raceVars>>)
    /\ WF_vars(WaitForHealthTimeout /\ UNCHANGED <<clientVars, topVars, raceVars>>)

-----------------------------------------------------------------------------
(* Properties of ZestServer *)

SpawnsInCall == nspawned - call.nspawned0

\* C1: an ensure_running() whose initial health probe succeeds returns at
\* once: it does not locate the binary, spawns nothing and leaves the process
\* handle as it was, on every such call.
HealthyReturnsImmediately ==
    (call.op = "ensure_running" /\ call.firstOk) =>
        /\ pc = "idle"
        /\ call.result = "ok"
        /\ ~call.located
        /\ SpawnsInCall = 0
        /\ process = call.process0

\* A repeated call on a manager that spawned before, found healthy.
HealthyRepeatCall ==
    /\ call.op = "ensure_running"
    /\ call.firstOk
    /\ nspawned = 1
    /\ process = 1

\* C2, as the spec states it: one manager never spawns more than one process.
AtMostOneSpawnPerInstance == nspawned <= 1

\* C2, amended: one call spawns at most one process: ensure_running() at most
\* one, and only after a failed initial probe; stop() none.
AtMostOneSpawnPerCall ==
    /\ SpawnsInCall \in {0, 1}
    /\ SpawnsInCall = 1 => (call.op = "ensure_running" /\ ~call.firstOk)

\* The second spawn of one manager, made by a later call.
SecondSpawnByLaterCall ==
    /\ nspawned = 2
    /\ call.nspawned0 = 1
    /\ call.op = "ensure_running"

\* C3: ensure_running() returns normally only after a probe of that call was
\* answered with HTTP 200.
ReturnsOnlyAfterHealthyProbe ==
    (call.op = "ensure_running" /\ call.result = "ok") => call.lastOk

\* A normal return on a probe of the poll loop, after a failed initial probe.
ReturnedFromPollLoop ==
    /\ call.op = "ensure_running"
    /\ call.result = "ok"
    /\ ~call.firstOk
    /\ call.lastOk
    /\ now > 0

\* C4: against a daemon that never becomes healthy, an ensure_running() that
\* found the binary never returns normally, and its poll loop always ends
\* with the startup-timeout error.
NeverHealthyTimesOut ==
    /\ []((neverHealthy /\ call.op = "ensure_running") => call.result # "ok")
    /\ ((neverHealthy /\ pc = "wait")
            ~> (pc = "idle" /\ call.result = "StartupTimeout"))

\* The startup timeout against a daemon that never became healthy.
TimedOutNeverHealthy ==
    /\ neverHealthy
    /\ pc = "idle"
    /\ call.result = "StartupTimeout"

\* C5: against a daemon that never becomes healthy, the startup timeout is
\* raised no later than STARTUP_TIMEOUT + STARTUP_POLL_INTERVAL after the
\* call began.
TimeoutWithinBound ==
    (neverHealthy /\ call.op = "ensure_running" /\ call.result = "StartupTimeout")
        => now <= STARTUP_TIMEOUT + STARTUP_POLL_INTERVAL

\* C6: a stop() whose request meets a connection error, on a manager whose
\* spawned process (if it holds one) has exited, raises nothing, has waited
\* on the process and cleared the handle, and spawned nothing.
StopToleratesExitedDaemon ==
    (/\ call.op = "stop"
     /\ call.post = "connerr"
     /\ (call.process0 = None \/ call.exited0)) =>
        /\ call.result = "ok"
        /\ process = None
        /\ call.process0 \notin unreaped
        /\ SpawnsInCall = 0

\* stop() after the spawned daemon exited: refused, reaped, handle cleared.
StoppedExitedDaemon ==
    /\ call.op = "stop"
    /\ call.post = "connerr"
    /\ call.exited0
    /\ call.process0 # None
    /\ call.result = "ok"
    /\ process = None

-----------------------------------------------------------------------------
(* Properties of hf_backend *)

PullFailed == dl.pull \in {"RuntimeError", "FileNotFoundError", ""}

\* C7: the replacement, invoked as the library's entry point: when
\* client.pull raises or returns an empty path, it calls the recorded original
\* with the same repo id, revision (None stays None) and keyword arguments
\* and its result is that call's; when pull returns a path, the original is
\* not called and the path is the result.
FallbackNeverEscapes ==
    (dl.fn.kind = "zest" /\ dl.entry) =>
        IF PullFailed
        THEN /\ dl.origCalled
             /\ dl.target = dl.recorded
             /\ dl.target.kind = "hub"
             /\ dl.origArgs = dl.args
             /\ dl.result.kind \in {"snapshot", "raised"}
             /\ dl.result.value = <<dl.recorded, dl.args>>
        ELSE /\ ~dl.origCalled
             /\ dl.result = [kind |-> "path", value |-> <<dl.pull>>]

\* A failed pull with revision None, answered by the original.
FellBackWithNoRevision ==
    /\ dl.fn.kind = "zest"
    /\ dl.entry
    /\ dl.pull = "RuntimeError"
    /\ dl.args.revision = NoRevision
    /\ dl.origCalled
    /\ dl.result.kind = "snapshot"

\* C8: the patched flag changes only by a patch_hf_hub() that activates and
\* an unpatch_hf_hub() that restores; patch_hf_hub() while patched changes
\* nothing; and the recorded original is one function of the library for as
\* long as the patch is active, never a replacement and never replaced.
PatchStateDiscipline ==
    /\ patched => original.kind = "hub"
    /\ ~patched => original = NoFn
    /\ (hist.patched0 # patched) => hist.op = (IF patched THEN "patch" ELSE "unpatch")
    /\ (hist.patched0 /\ patched) => original = hist.original0
    /\ (hist.op = "patch" /\ hist.patched0) =>
          /\ patched
          /\ snapshot_download = hist.download0
          /\ original = hist.original0

\* A redundant patch_hf_hub() in the second activation.
PatchedTwiceInARow ==
    /\ hist.op = "patch"
    /\ hist.patched0
    /\ snapshot_download = Zest(2)

\* C9: unpatch_hf_hub() while patched puts back the very function that was
\* the library's entry point when this activation began, in every cycle.
UnpatchRestoresOriginal ==
    (hist.op = "unpatch" /\ hist.patched0) =>
        /\ snapshot_download = hist.activated
        /\ snapshot_download.kind = "hub"
        /\ ~patched

\* The second cycle's unpatch, restoring what that cycle found installed.
SecondCycleRestored ==
    /\ hist.op = "unpatch"
    /\ hist.patched0
    /\ nrepl = 2
    /\ hist.download0 = Zest(2)
    /\ snapshot_download = HubFn(2)

\* C10: unpatch_hf_hub() while not patched changes neither the library's
\* download function, nor the recorded original, nor the patched flag.
UnpatchWhenIdleIsNoOp ==
    (hist.op = "unpatch" /\ ~hist.patched0) =>
        /\ snapshot_download = hist.download0
        /\ original = hist.original0
        /\ ~patched

\* unpatch_hf_hub() again, after an earlier cycle was already undone.
UnpatchedAgain ==
    /\ hist.op = "unpatch"
    /\ ~hist.patched0
    /\ hfAvailable
    /\ nrepl = 1

\* C12: without the library, patch_hf_hub() changes nothing: the patch never
\* becomes active, no original is recorded and no replacement is created, so
\* that unpatch_hf_hub() stays a no-op too.
PatchWithoutLibraryIsNoOp ==
    ~hfAvailable =>
        /\ ~patched
        /\ original = NoFn
        /\ nrepl = 0
        /\ hist.op \in {"patch", "unpatch"} =>
              /\ snapshot_download = hist.download0
              /\ original = hist.original0
              /\ patched = hist.patched0

\* patch_hf_hub() was called without the library.
PatchedWithoutLibrary ==
    /\ ~hfAvailable
    /\ hist.op = "patch"
    /\ ~patched

\* C19, as claimed: a replacement that has to fall back, however it is
\* reached, calls the function recorded as the original when that replacement
\* was installed.
FallbackFindsItsOriginal ==
    (dl.fn.kind = "zest" /\ PullFailed) =>
        /\ dl.origCalled
        /\ dl.target = hist.recordings[dl.fn.id]

-----------------------------------------------------------------------------
(* Properties of ZestServer, continued *)

\* C18, as claimed: a stop() on a manager holding a process handle ends with
\* the handle cleared, on every exit path.
StopAlwaysClearsHandle ==
    (call.op = "stop" /\ call.process0 # None) => process = None

\* C20, as claimed: every process spawned and not yet waited on is the one
\* the process handle refers to.
NoOrphanedProcess == unreaped \subseteq {process}

-----------------------------------------------------------------------------
(* Properties of the locators and of ZestClient *)

ExpectedDir(repo) ==
    IF repo = <<"org", "/", "name">>
    THEN <<"models--", "org", "--", "name">>
    ELSE <<"models--", "gpt2">>

\* C15: a pull whose subprocess ran: a nonzero exit raises the pull error; a
\* zero exit returns an entry of greatest modification time of the snapshots
\* directory keyed by the sanitized repo name, or the empty string when that
\* directory is missing or empty.
PullReturnsNewestSnapshot ==
    (cl.op = "pull" /\ cl.client # "") =>
        LET dir == ExpectedDir(cl.repo)
            has == {n \in SnapNames : cl.cache[dir].mtime[n] > 0}
        IN  IF cl.rc # 0 THEN cl.result.kind = "RuntimeError"
            ELSE IF ~cl.cache[dir].isDir \/ has = {} THEN cl.result.kind = "empty"
            ELSE /\ cl.result.kind = "path"
                 /\ cl.result.dir = dir
                 /\ cl.result.name \in has
                 /\ \A n \in has : cl.cache[dir].mtime[n] <= cl.cache[dir].mtime[cl.result.name]

\* "org/name" pulled with two snapshots of different age: the newer one.
PulledNewerOfTwo ==
    /\ cl.op = "pull"
    /\ cl.repo = <<"org", "/", "name">>
    /\ cl.rc = 0
    /\ cl.cache[<<"models--", "org", "--", "name">>].mtime["abc"] = 1
    /\ cl.cache[<<"models--", "org", "--", "name">>].mtime["def"] = 2
    /\ cl.result = [kind |-> "path", dir |-> <<"models--", "org", "--", "name">>,
                    name |-> "def"]

\* C16, as claimed: on every file system the three locators select the same
\* binary, and fail together.
LocatorsAgree ==
    cl.op = "locate" => (cl.cli = cl.server /\ cl.server = cl.client)

-----------------------------------------------------------------------------
(* Properties of the top-level operations *)

\* C11: in pull(), status() and enable() the client request, or the call of
\* patch_hf_hub, is made only after ensure_running() returned in the same
\* call; when ensure_running() fails (binary not found, startup timeout) the
\* error reaches the caller, no request is made and PatchState is as it was.
RequestOnlyAfterEnsured ==
    top.op \in TopOps =>
        /\ (top.requested \/ top.patchCalled) =>
              /\ top.ensured = "ok"
              /\ call.op = "ensure_running"
              /\ call.result = "ok"
        /\ (top.stage = "done" /\ call.result \in {"BinaryNotFound", "StartupTimeout"}) =>
              /\ top.outcome = "raised"
              /\ top.error = call.result
              /\ ~top.requested
              /\ ~top.patchCalled
              /\ PatchState = top.patch0

\* An enable() whose daemon never came up, with the interception off before.
EnableTimedOut ==
    /\ top.op = "enable"
    /\ top.stage = "done"
    /\ call.result = "StartupTimeout"
    /\ top.outcome = "raised"
    /\ ~patched

\* C13: with the opt-in flag set, the import's auto-enable never raises:
\* binary not found, startup timeout and a failure in patch_hf_hub are all
\* swallowed and the import completes.
AutoEnableNeverRaises ==
    (top.op = "import" /\ top.stage = "done") => top.outcome = "returned"

\* An import with the flag set whose enable() timed out waiting for the daemon.
ImportSwallowedTimeout ==
    /\ top.op = "import"
    /\ AutoEnable(top.flag)
    /\ top.stage = "done"
    /\ top.error = "StartupTimeout"
    /\ top.outcome = "returned"

-----------------------------------------------------------------------------
(* Properties of concurrent callers *)

\* C17: nothing keeps two callers of ensure_running() from both spawning:
\* when both have spawned, the two processes are distinct and the handle
\* holds the later one, the earlier one left unreferenced and never waited on.
SecondSpawnOverwritesHandle ==
    \A t \in Callers, u \in Callers :
        (/\ race[t].mine # None
         /\ race[u].mine # None
         /\ race[t].mine < race[u].mine) =>
            /\ process = race[u].mine
            /\ process # race[t].mine
            /\ race[t].mine \in unreaped

\* Both callers' initial probes failed before either had spawned, and both
\* then spawned.
BothProbesFailedBothSpawned ==
    /\ \A t \in Callers :
         /\ race[t].probeFailed
         /\ race[t].nspawned0 = 0
         /\ race[t].mine # None
    /\ race[1].mine # race[2].mine
    /\ nspawned = 2
    /\ process = 2

====
